---- MODULE Spec2Model ----
(***************************************************************************)
(* The streaming chat client of byte: the ChatInterface component of       *)
(* frontend/src/components/chat (the ref-based variant, lines 1237-1808 of *)
(* MessageBubble.tsx).  The model covers the connection effect (the        *)
(* reconnect supervisor closed over reconnectAttempts / reconnectTimeout), *)
(* the websocket callbacks onopen / onmessage / onerror / onclose, the     *)
(* turn accumulators kept in React state and in refs, sendMessage, the      *)
(* thread effect with its history load, and the voice path (InputArea's     *)
(* recorder and sendVoiceMessage).  Two more programs of the repository   *)
(* are modelled next to it, each on variables of its own: the /api/chat    *)
(* adapter (app/api/chat/route.ts), which turns the records of a backend   *)
(* socket into a response stream, and the state-only variant of            *)
(* ChatInterface (lines 799-998 of MessageBubble.tsx).                     *)
(*                                                                         *)
(* Text is a sequence of one-character strings.  The server is not part of *)
(* the repository sources: every inbound record is an input, drawn from a  *)
(* small alphabet, that may arrive on any socket that is OPEN.             *)
(***************************************************************************)
EXTENDS Integers, Sequences, FiniteSets, TLC

\* ------------------------------------------------------------------ bounds
MaxLen == 2
MaxTools == 2
MaxMsgs == 2
MaxSockets == 6
MaxEffects == 2
MaxClock == 1
MaxFrags == 3
TurnSockets == 2
TermLen == 1
MaxPushes == 2
MaxFetch == 1
MaxChunks == 2

\* ------------------------------------------------------- program constants
maxReconnectAttempts == 5
BaseDelay == 1000
CapDelay == 16000

\* ---------------------------------------------------------------- alphabet
\* data.content of a thinking / answer record; Undefined is an absent field
Undefined == <<"undefined">>
Contents == {<<"a">>, <<"b">>}
\* tool_call_id / tool_name of tool records; NoId is an absent tool_call_id
NoId == "none"
CallIds == {"id1", "id2"}
ToolNames == {"scan", "image_search"}
Results == {"r1", "r2"}
Errors == {"boom"}
\* thread ids: NoThread is an absent id (a new conversation, no data.thread_id)
NoThread == "nothread"
ThreadIds == {"t0", "t1", "t2"}
DoneThreads == {NoThread, "t1", "t2"}
\* data.tool_name of a tool record that carries none
NoName == "noname"
\* a whitespace-only content
Blank == <<" ">>
\* a text the user types into the input box
Typed == <<"u">>
\* what the input box may hold: nothing, whitespace, a text
Inputs == {<<>>, Blank, Typed}
\* the type tags onmessage has a branch for
EventTypes == {"thinking", "answer", "tool_call", "tool_result", "done", "error"}

SockIds == 1 .. MaxSockets
EffectIds == 1 .. MaxEffects

VARIABLES
    \* React state of ChatInterface
    messages, isLoading, wsConnected,
    thinkingContent, streamingContent, toolInvocations,
    \* refs
    thinkingRef, streamingRef, toolInvocationsRef, wsRef,
    \* the sockets created so far and the connection effect's closures
    sock, sup, clock,
    \* history variables (observers only; no action reads them in a guard):
    \*   gThinking, gAnswer  the contents of the thinking / answer records of
    \*                       the turn being accumulated, in arrival order
    \*   doneRun             how many done records arrived in a row (up to 2)
    \*   ended               a terminal record ended the request of the last send
    \*   accSocks            the sockets whose records were folded into the
    \*                       accumulators while a request was in flight
    \*   gAttempts[k]        reconnect attempts of run k since its last open
    \*   inFlight            a request was transmitted and no done / error
    \*                       record has arrived since
    \*   discarded           the latest record was an error record that found
    \*                       accumulated content
    \*   gDropAt             how many fragments the turn had when onmessage last
    \*                       dropped a frame (-1: none since the last send)
    gThinking, gAnswer, doneRun, ended, accSocks, gAttempts, inFlight, discarded,
    gDropAt,
    \*   gCalls              the tool_name of the tool_call records of the turn
    \*                       being accumulated, in arrival order
    gCalls,
    \* thread identity: the threadId prop, the currentThreadId state, the
    \* currentThreadId each run of the connection effect closed over, the deps
    \* the thread effect last ran with, the history request, the router.push calls
    threadId, currentThreadId, closureThread, effDeps, history, pushes,
    \* voice input: InputArea's isRecording and the pending /chat/voice request
    recording, voicePost,
    \* the text of the input box (ChatInterface's input state)
    input,
    \* the /api/chat adapter serving one POST: the backend socket's readyState,
    \* the state of the response stream's controller, the chunks enqueued, the
    \* requests sent to the backend, whether the consumer cancelled; history:
    \*   gLateCall    close, error or enqueue was called on the controller
    \*                after the adapter had closed or errored it
    \*   gLateSend    a request was sent to the backend after the cancel
    wsState, controller, chunks, requests, cancelled, gLateCall, gLateSend,
    \* the state-only variant of ChatInterface: its React state, its socket,
    \* the thinkingContent / streamingContent its connection effect's closure
    \* captured; history: the contents of the thinking / answer records of
    \* the turn, in arrival order
    soMessages, soIsLoading, soWsConnected, soThinkingContent,
    soStreamingContent, soCurrentThreadId, soSocket, soClosure, gSoThinking,
    gSoAnswer

state == <<messages, isLoading, wsConnected, thinkingContent, streamingContent,
           toolInvocations>>
refs == <<thinkingRef, streamingRef, toolInvocationsRef, wsRef>>
conn == <<sock, sup, clock>>
hist == <<gThinking, gAnswer, doneRun, ended, accSocks, gAttempts, inFlight,
          discarded, gDropAt, gCalls>>
thread == <<threadId, currentThreadId, closureThread, effDeps, history, pushes>>
voice == <<recording, voicePost>>
adapter == <<wsState, controller, chunks, requests, cancelled, gLateCall,
             gLateSend>>
variant == <<soMessages, soIsLoading, soWsConnected, soThinkingContent,
             soStreamingContent, soCurrentThreadId, soSocket, soClosure,
             gSoThinking, gSoAnswer>>
\* what the handlers of the ref-based ChatInterface other than the input box's
\* leave alone
rest == <<input, adapter, variant>>
\* the ref-based ChatInterface and its input box
chat == <<state, refs, conn, hist, thread, voice, input>>
vars == <<state, refs, conn, hist, thread, voice, rest>>

\* ----------------------------------------------------------------- helpers
Min(a, b) == IF a < b THEN a ELSE b

RECURSIVE Pow2(_)
Pow2(n) == IF n = 0 THEN 1 ELSE 2 * Pow2(n - 1)

\* String.prototype.trim() leaves something iff a non-blank character exists
TrimNonEmpty(text) == \E i \in 1 .. Len(text) : text[i] # " "

\* sockets created so far are 1 .. NumSocks
NumSocks == Cardinality({s \in SockIds : sock[s].st # "unused"})
NumEffects == Cardinality({k \in EffectIds : sup[k].ran})

\* ------------------------------------------------- onmessage: pure pieces
\* const newContent = data.content || ''
ContentOf(content) == IF content = Undefined THEN <<>> ELSE content

\* a fold that puts the newest fragment first
AppendContent_Prepend(prev, content) == ContentOf(content) \o prev

\* prev + newContent, thinkingRef.current += newContent
AppendContent(prev, content) == prev \o ContentOf(content)

\* Date.now().toString()
ClockId(clk) == IF clk = 0 THEN "c0" ELSE IF clk = 1 THEN "c1" ELSE "c2"

\* a tool_call that registers the invocation as already completed
NewTool_Completed(callId, name, clk) ==
    [id |-> IF callId # NoId THEN callId ELSE ClockId(clk),
     name |-> name, status |-> "completed", result |-> NoId]

\* const newTool = { id: data.tool_call_id || Date.now().toString(), name, status: 'calling' }
NewTool(callId, name, clk) ==
    [id |-> IF callId # NoId THEN callId ELSE ClockId(clk),
     name |-> name, status |-> "calling", result |-> NoId]

\* (data.tool_call_id && tool.id === data.tool_call_id) || tool.name === data.tool_name
MatchesResult(tool, callId, name) ==
    (callId # NoId /\ tool.id = callId) \/ tool.name = name

\* a map that marks the matching tools completed without storing the content
ResolveTools_StatusOnly(tools, callId, name, content) ==
    [i \in 1 .. Len(tools) |->
        IF MatchesResult(tools[i], callId, name)
        THEN [tools[i] EXCEPT !.status = "completed"]
        ELSE tools[i]]

\* prev.map(tool => match ? { ...tool, result: data.content, status: 'completed' } : tool)
ResolveTools(tools, callId, name, content) ==
    [i \in 1 .. Len(tools) |->
        IF MatchesResult(tools[i], callId, name)
        THEN [tools[i] EXCEPT !.result = content, !.status = "completed"]
        ELSE tools[i]]

\* streamingRef.current.trim() || thinkingRef.current.trim()
HasContent(streaming, thinking) == TrimNonEmpty(streaming) \/ TrimNonEmpty(thinking)

\* a tools test that an empty list passes
HasTools_NonNegative(tools) == Len(tools) >= 0

\* toolInvocationsRef.current.length > 0
HasTools(tools) == Len(tools) > 0

\* the finalMessage of done; stale is a history field: some fragment of the
\* turn came from a socket that is closed when the message is built
FinalMessage(streaming, thinking, tools, stale) ==
    [role |-> "assistant", content |-> streaming,
     thinking |-> IF thinking = <<>> THEN Undefined ELSE thinking,
     hasTools |-> HasTools(tools),
     toolInvocations |-> IF HasTools(tools) THEN tools ELSE <<>>,
     kind |-> "turn", stale |-> stale]

\* { role: 'assistant', content: `Error: ${data.error}` }
ErrorMessage(err) ==
    [role |-> "assistant", content |-> <<"Error: ", err>>, thinking |-> Undefined,
     hasTools |-> FALSE, toolInvocations |-> <<>>, kind |-> "error", stale |-> FALSE]

\* { role: 'user', content: input, mode }
UserMessage(text) ==
    [role |-> "user", content |-> text, thinking |-> Undefined,
     hasTools |-> FALSE, toolInvocations |-> <<>>, kind |-> "user", stale |-> FALSE]

\* a done branch that clears the texts and keeps the invocations
DoneReset_KeepTools(acc) == [acc EXCEPT !.thinking = <<>>, !.streaming = <<>>]

\* a done branch that forgets to clear the accumulators
DoneReset_Keep(acc) == acc

\* thinkingRef.current = ''; streamingRef.current = ''; toolInvocationsRef.current = []
\* (with the three state setters) at the end of done
DoneReset(acc) == [thinking |-> <<>>, streaming |-> <<>>, tools |-> <<>>]

\* an error branch that keeps what the turn had accumulated
ErrorReset_Keep(acc) == acc

\* the same reset in the error branch
ErrorReset(acc) == [thinking |-> <<>>, streaming |-> <<>>, tools |-> <<>>]

\* ----------------------------------------------- the reconnect supervisor
\* a supervisor that reconnects once and then gives up
MayReconnect_Once(attempts) == attempts < 1

\* an off-by-one retry bound
MayReconnect_Inclusive(attempts) == attempts <= maxReconnectAttempts

\* reconnectAttempts < maxReconnectAttempts
MayReconnect(attempts) == attempts < maxReconnectAttempts

\* Math.min(1000 * Math.pow(2, reconnectAttempts), 16000)
ReconnectDelay(attempts) == Min(BaseDelay * Pow2(attempts), CapDelay)

\* an onopen that keeps the attempt counter
OpenResetAttempts_Keep(attempts) == attempts

\* reconnectAttempts = 0 in onopen
OpenResetAttempts(attempts) == 0

NoSup == [ran |-> FALSE, torn |-> FALSE, attempts |-> 0, timer |-> "none",
          delay |-> 0, ws |-> 0]
NoSock == [st |-> "unused", sup |-> 0]

NoPost == [posting |-> FALSE, thread |-> NoThread]

\* ------------------------------------------------------------------- Init
\* POST has built the backend socket and the response stream: the socket is
\* CONNECTING, the stream readable and empty, nothing was sent
AdapterInit ==
    /\ wsState = "connecting"
    /\ controller = "readable"
    /\ chunks = <<>>
    /\ requests = 0
    /\ cancelled = FALSE
    /\ gLateCall = FALSE
    /\ gLateSend = FALSE

\* the state-only ChatInterface mounted on the new-conversation page: useState
\* initial values, the connection effect has not run yet
VariantInit ==
    /\ soMessages = <<>>
    /\ soIsLoading = FALSE
    /\ soWsConnected = FALSE
    /\ soThinkingContent = <<>>
    /\ soStreamingContent = <<>>
    /\ soCurrentThreadId = NoThread
    /\ soSocket = "none"
    /\ soClosure = [thinking |-> <<>>, streaming |-> <<>>, thread |-> NoThread]
    /\ gSoThinking = <<>>
    /\ gSoAnswer = <<>>

\* The component mounted under a route: useState initial values, and the
\* thread effect has run once (for a thread route its history came back empty).
InitAt(route) ==
    /\ messages = <<>>
    /\ isLoading = FALSE
    /\ wsConnected = FALSE
    /\ thinkingContent = <<>>
    /\ streamingContent = <<>>
    /\ toolInvocations = <<>>
    /\ thinkingRef = <<>>
    /\ streamingRef = <<>>
    /\ toolInvocationsRef = <<>>
    /\ wsRef = 0
    /\ sock = [s \in SockIds |-> NoSock]
    /\ sup = [k \in EffectIds |-> NoSup]
    /\ clock = 0
    /\ gThinking = <<>>
    /\ gAnswer = <<>>
    /\ doneRun = 0
    /\ ended = FALSE
    /\ accSocks = {}
    /\ gAttempts = [k \in EffectIds |-> 0]
    /\ inFlight = FALSE
    /\ discarded = FALSE
    /\ gDropAt = -1
    /\ gCalls = <<>>
    /\ threadId = route
    /\ currentThreadId = route
    /\ closureThread = [k \in EffectIds |-> NoThread]
    /\ effDeps = <<route, route, 0>>
    /\ history = 0
    /\ pushes = <<>>
    /\ recording = FALSE
    /\ voicePost = NoPost
    /\ input = <<>>
    /\ AdapterInit
    /\ VariantInit

\* mounted on the page of an existing thread
Init == InitAt("t0")

\* mounted on the new-conversation page (no threadId prop)
InitNewChat == InitAt(NoThread)

\* ---------------------------------------------------- connection effect
\* connectWebSocket(): new WebSocket(...); the socket is CONNECTING
Connected(k) == [sock EXCEPT ![NumSocks + 1] = [st |-> "connecting", sup |-> k]]

\* The effect body runs (status authenticated, token present): a fresh closure
\* with reconnectAttempts = 0, reconnectTimeout = null, ws = connectWebSocket().
\* A re-run follows the cleanup of the previous run.
EffectRun ==
    /\ NumEffects < MaxEffects
    /\ NumSocks < MaxSockets
    /\ NumEffects > 0 => sup[NumEffects].torn
    /\ sup' = [sup EXCEPT ![NumEffects + 1] =
                  [ran |-> TRUE, torn |-> FALSE, attempts |-> 0, timer |-> "none",
                   delay |-> 0, ws |-> NumSocks + 1]]
    /\ sock' = Connected(NumEffects + 1)
    /\ closureThread' = [closureThread EXCEPT ![NumEffects + 1] = currentThreadId]
    /\ UNCHANGED <<state, refs, clock, hist, threadId, currentThreadId, effDeps,
                   history, pushes, voice, rest>>

\* The cleanup of run k: if (reconnectTimeout) clearTimeout(reconnectTimeout);
\* ws.close() on the socket the run's first connectWebSocket() returned.
\* close() on a CONNECTING socket fails the connection (error, then close);
\* on an OPEN socket it starts the closing handshake; otherwise it does nothing.
Cleanup(k) ==
    /\ sup[k].ran /\ ~sup[k].torn
    /\ sup' = [sup EXCEPT ![k].torn = TRUE, ![k].timer = "none", ![k].delay = 0]
    /\ sock' = [sock EXCEPT ![sup[k].ws].st =
                   IF @ = "connecting" THEN "aborted"
                   ELSE IF @ = "open" THEN "closing" ELSE @]
    /\ UNCHANGED <<state, refs, clock, hist, thread, voice, rest>>

\* websocket.onopen
OnOpen(s) ==
    /\ sock[s].st = "connecting"
    /\ sock' = [sock EXCEPT ![s].st = "open"]
    /\ wsConnected' = TRUE
    /\ wsRef' = s
    /\ sup' = [sup EXCEPT ![sock[s].sup].attempts = OpenResetAttempts(@)]
    /\ gAttempts' = [gAttempts EXCEPT ![sock[s].sup] = 0]
    /\ UNCHANGED <<messages, isLoading, thinkingContent, streamingContent,
                   toolInvocations, thinkingRef, streamingRef, toolInvocationsRef,
                   clock, gThinking, gAnswer, doneRun, ended, accSocks,
                   inFlight, discarded, gDropAt, gCalls, thread,
                   voice, rest>>

\* websocket.onerror: the connection failed (a close event follows)
OnSocketError(s) ==
    /\ sock[s].st \in {"connecting", "open", "aborted"}
    /\ sock' = [sock EXCEPT ![s].st = "closing"]
    /\ wsConnected' = FALSE
    /\ UNCHANGED <<messages, isLoading, thinkingContent, streamingContent,
                   toolInvocations, refs, sup, clock, hist, thread, voice, rest>>

\* websocket.onclose
OnClose(s) ==
    /\ sock[s].st \in {"open", "closing"}
    /\ sock' = [sock EXCEPT ![s].st = "closed"]
    /\ wsConnected' = FALSE
    /\ wsRef' = 0
    /\ sup' = LET k == sock[s].sup
              IN  IF MayReconnect(sup[k].attempts)
                  THEN [sup EXCEPT ![k].timer = "pending",
                                   ![k].delay = ReconnectDelay(sup[k].attempts)]
                  ELSE sup
    /\ UNCHANGED <<messages, isLoading, thinkingContent, streamingContent,
                   toolInvocations, thinkingRef, streamingRef, toolInvocationsRef,
                   clock, hist, thread, voice, rest>>

\* the reconnect timer's callback: reconnectAttempts++; connectWebSocket()
TimerFire(k) ==
    /\ sup[k].timer = "pending"
    /\ NumSocks < MaxSockets
    /\ sup' = [sup EXCEPT ![k].timer = "none", ![k].delay = 0,
                          ![k].attempts = @ + 1]
    /\ sock' = Connected(k)
    /\ gAttempts' = [gAttempts EXCEPT ![k] = @ + 1]
    /\ UNCHANGED <<state, refs, clock, gThinking, gAnswer, doneRun, ended,
                   accSocks, inFlight, discarded, gDropAt, gCalls, thread,
                   voice, rest>>

\* time passes (Date.now() grows)
ClockTick ==
    /\ clock < MaxClock
    /\ clock' = clock + 1
    /\ UNCHANGED <<state, refs, sock, sup, hist, thread, voice, rest>>

\* ------------------------------------------------- websocket.onmessage
\* data.type === 'thinking'
OnThinking(s, c) ==
    /\ sock[s].st = "open"
    /\ Len(thinkingRef) + Len(ContentOf(c)) <= MaxLen
    /\ Len(gThinking) + Len(gAnswer) < MaxFrags
    /\ thinkingContent' = AppendContent(thinkingContent, c)
    /\ thinkingRef' = AppendContent(thinkingRef, c)
    /\ gThinking' = Append(gThinking, c)
    /\ doneRun' = 0
    /\ accSocks' = IF isLoading THEN accSocks \cup {s} ELSE accSocks
    /\ UNCHANGED <<messages, isLoading, wsConnected, streamingContent,
                   toolInvocations, streamingRef, toolInvocationsRef, wsRef,
                   conn, gAnswer, ended, gAttempts, inFlight, gDropAt, gCalls,
                   thread, voice, rest>>
    /\ discarded' = FALSE

\* data.type === 'answer'
OnAnswer(s, c) ==
    /\ sock[s].st = "open"
    /\ Len(streamingRef) + Len(ContentOf(c)) <= MaxLen
    /\ Len(gThinking) + Len(gAnswer) < MaxFrags
    /\ streamingContent' = AppendContent(streamingContent, c)
    /\ streamingRef' = AppendContent(streamingRef, c)
    /\ gAnswer' = Append(gAnswer, c)
    /\ doneRun' = 0
    /\ accSocks' = IF isLoading THEN accSocks \cup {s} ELSE accSocks
    /\ UNCHANGED <<messages, isLoading, wsConnected, thinkingContent,
                   toolInvocations, thinkingRef, toolInvocationsRef, wsRef,
                   conn, gThinking, ended, gAttempts, inFlight, gDropAt, gCalls,
                   thread, voice, rest>>
    /\ discarded' = FALSE

\* data.type === 'tool_call'
OnToolCall(s, callId, name) ==
    /\ sock[s].st = "open"
    /\ Len(toolInvocationsRef) < MaxTools
    /\ toolInvocations' = Append(toolInvocations, NewTool(callId, name, clock))
    /\ toolInvocationsRef' = Append(toolInvocationsRef, NewTool(callId, name, clock))
    /\ doneRun' = 0
    /\ accSocks' = IF isLoading THEN accSocks \cup {s} ELSE accSocks
    /\ UNCHANGED <<messages, isLoading, wsConnected, thinkingContent,
                   streamingContent, thinkingRef, streamingRef, wsRef,
                   conn, gThinking, gAnswer, ended, gAttempts, inFlight,
                   gDropAt, thread, voice, rest>>
    /\ discarded' = FALSE
    /\ gCalls' = Append(gCalls, name)

\* a tool_result branch that also resolves the invocations of the messages
\* already stored
OnToolResult_Late(s, callId, name, content) ==
    /\ sock[s].st = "open"
    /\ toolInvocations' = ResolveTools(toolInvocations, callId, name, content)
    /\ toolInvocationsRef' = ResolveTools(toolInvocationsRef, callId, name, content)
    /\ messages' = [i \in 1 .. Len(messages) |->
                       [messages[i] EXCEPT !.toolInvocations =
                           ResolveTools(@, callId, name, content)]]
    /\ doneRun' = 0
    /\ accSocks' = IF isLoading THEN accSocks \cup {s} ELSE accSocks
    /\ UNCHANGED <<isLoading, wsConnected, thinkingContent,
                   streamingContent, thinkingRef, streamingRef, wsRef,
                   conn, gThinking, gAnswer, ended, gAttempts, inFlight,
                   gDropAt, gCalls, thread, voice, rest>>
    /\ discarded' = FALSE

\* data.type === 'tool_result'
OnToolResult(s, callId, name, content) ==
    /\ sock[s].st = "open"
    /\ toolInvocations' = ResolveTools(toolInvocations, callId, name, content)
    /\ toolInvocationsRef' = ResolveTools(toolInvocationsRef, callId, name, content)
    /\ doneRun' = 0
    /\ accSocks' = IF isLoading THEN accSocks \cup {s} ELSE accSocks
    /\ UNCHANGED <<messages, isLoading, wsConnected, thinkingContent,
                   streamingContent, thinkingRef, streamingRef, wsRef,
                   conn, gThinking, gAnswer, ended, gAttempts, inFlight,
                   gDropAt, gCalls, thread, voice, rest>>
    /\ discarded' = FALSE

\* data.type === 'done' with data.thread_id = tid.  currentThreadId is the
\* value the connection effect's closure captured when the effect ran.
OnDoneData(s, tid) ==
    LET emit == HasContent(streamingRef, thinkingRef) \/ HasTools(toolInvocationsRef)
        stale == \E x \in accSocks : sock[x].st = "closed"
        r == DoneReset([thinking |-> thinkingRef, streaming |-> streamingRef,
                        tools |-> toolInvocationsRef])
        v == DoneReset([thinking |-> thinkingContent, streaming |-> streamingContent,
                        tools |-> toolInvocations])
        adopt == closureThread[sock[s].sup] = NoThread /\ tid # NoThread
    IN  /\ sock[s].st = "open"
        /\ emit => Len(messages) < MaxMsgs
        /\ adopt => Len(pushes) < MaxPushes
        /\ currentThreadId' = IF adopt THEN tid ELSE currentThreadId
        /\ pushes' = IF adopt THEN Append(pushes, tid) ELSE pushes
        /\ messages' = IF emit
                       THEN Append(messages, FinalMessage(streamingRef, thinkingRef,
                                                          toolInvocationsRef, stale))
                       ELSE messages
        /\ thinkingContent' = v.thinking
        /\ streamingContent' = v.streaming
        /\ toolInvocations' = v.tools
        /\ thinkingRef' = r.thinking
        /\ streamingRef' = r.streaming
        /\ toolInvocationsRef' = r.tools
        /\ isLoading' = FALSE
        /\ gThinking' = <<>>
        /\ gAnswer' = <<>>
        /\ doneRun' = Min(doneRun + 1, 2)
        /\ ended' = (isLoading \/ ended)
        /\ accSocks' = {}
        /\ inFlight' = FALSE
        /\ discarded' = FALSE
        /\ gCalls' = <<>>
        /\ UNCHANGED <<wsConnected, wsRef, conn, gAttempts, gDropAt, threadId,
                       closureThread, effDeps, history, voice, rest>>

\* a done record, whatever thread id it carries
OnDone(s) == \E tid \in DoneThreads : OnDoneData(s, tid)

\* data.type === 'error'
OnError(s, err) ==
    LET r == ErrorReset([thinking |-> thinkingRef, streaming |-> streamingRef,
                         tools |-> toolInvocationsRef])
        v == ErrorReset([thinking |-> thinkingContent, streaming |-> streamingContent,
                         tools |-> toolInvocations])
    IN  /\ sock[s].st = "open"
        /\ Len(messages) < MaxMsgs
        /\ messages' = Append(messages, ErrorMessage(err))
        /\ isLoading' = FALSE
        /\ thinkingContent' = v.thinking
        /\ streamingContent' = v.streaming
        /\ toolInvocations' = v.tools
        /\ thinkingRef' = r.thinking
        /\ streamingRef' = r.streaming
        /\ toolInvocationsRef' = r.tools
        /\ gThinking' = <<>>
        /\ gAnswer' = <<>>
        /\ doneRun' = 0
        /\ ended' = (isLoading \/ ended)
        /\ accSocks' = {}
        /\ inFlight' = FALSE
        /\ discarded' = (thinkingRef # <<>> \/ streamingRef # <<>>
                          \/ toolInvocationsRef # <<>>)
        /\ gCalls' = <<>>
        /\ UNCHANGED <<wsConnected, wsRef, conn, gAttempts, gDropAt, thread, voice,
                       rest>>

\* ------------------------------------------------------------ sendMessage
\* wsRef.current && wsRef.current.readyState === WebSocket.OPEN
SocketReady == wsRef # 0 /\ sock[wsRef].st = "open"

\* the textarea's onChange (the textarea is disabled while isLoading)
SetInput(text) ==
    /\ ~isLoading
    /\ text # input
    /\ input' = text
    /\ UNCHANGED <<state, refs, conn, hist, thread, voice, adapter, variant>>

\* a guard that does not look at the connected flag
Accepts_NoFlag(text) == TrimNonEmpty(text) /\ ~isLoading

\* the negation of sendMessage's guard in a render whose input is text:
\* if (!input.trim() || isLoading || !wsConnected) return;
Accepts(text) == TrimNonEmpty(text) /\ ~isLoading /\ wsConnected

SendGuard == Accepts(input)

\* a submit (the Enter key, the send button) that the guard turns away
SendRejected ==
    /\ ~SendGuard
    /\ UNCHANGED vars

\* sendMessage run in a render whose input is text, past its guard
Submit(text) ==
    /\ Accepts(text)
    /\ Len(messages) + (IF SocketReady THEN 1 ELSE 2) <= MaxMsgs
    /\ messages' = IF SocketReady
                   THEN Append(messages, UserMessage(text))
                   ELSE Append(Append(messages, UserMessage(text)),
                               ErrorMessage("Could not connect to the AI backend."))
    /\ isLoading' = SocketReady
    /\ thinkingContent' = <<>>
    /\ streamingContent' = <<>>
    /\ toolInvocations' = <<>>
    /\ thinkingRef' = <<>>
    /\ streamingRef' = <<>>
    /\ toolInvocationsRef' = <<>>
    /\ gThinking' = <<>>
    /\ gAnswer' = <<>>
    /\ doneRun' = 0
    /\ ended' = FALSE
    /\ accSocks' = {}
    /\ inFlight' = (SocketReady \/ inFlight)
    /\ discarded' = FALSE
    /\ gDropAt' = -1
    /\ gCalls' = <<>>
    /\ input' = <<>>
    /\ UNCHANGED <<wsConnected, wsRef, conn, gAttempts, thread, voice, adapter,
                   variant>>

\* a submit that passes the guard
SendMessage == Submit(input)

\* the user types a text into the empty input box and submits it at once
\* (onChange, then sendMessage in the render that follows)
TypeAndSend ==
    /\ input = <<>>
    /\ Submit(Typed)

\* websocket.onmessage as a whole.  A raw frame is what JSON.parse makes of
\* event.data: "garbage" does not parse (SyntaxError), "null" parses to null
\* (data.type throws a TypeError), "object" parses to an object whose fields
\* are read by the branch its type selects.
Raw(json, type, content, id, name, result, err, tid) ==
    [json |-> json, type |-> type, content |-> content, tool_call_id |-> id,
     tool_name |-> name, result |-> result, error |-> err, thread_id |-> tid]

\* a dispatch that treats an unknown type tag as a failure of the turn
Branch_UnknownIsError(raw) ==
    IF raw.json # "object" THEN "catch"
    ELSE IF raw.type \in EventTypes THEN raw.type ELSE "error"

\* the branch of the try block that runs: "catch" for the catch block, "none"
\* when no else-if matches
Branch(raw) ==
    IF raw.json # "object" THEN "catch"
    ELSE IF raw.type \in EventTypes THEN raw.type ELSE "none"

OnMessage(s, raw) ==
    \/ Branch(raw) = "thinking" /\ OnThinking(s, raw.content)
    \/ Branch(raw) = "answer" /\ OnAnswer(s, raw.content)
    \/ Branch(raw) = "tool_call" /\ OnToolCall(s, raw.tool_call_id, raw.tool_name)
    \/ Branch(raw) = "tool_result"
          /\ OnToolResult(s, raw.tool_call_id, raw.tool_name, raw.result)
    \/ Branch(raw) = "done" /\ OnDoneData(s, raw.thread_id)
    \/ Branch(raw) = "error" /\ OnError(s, raw.error)
    \/ /\ Branch(raw) \in {"catch", "none"}
       /\ sock[s].st = "open"
       /\ gDropAt' = Len(gThinking) + Len(gAnswer)
       /\ UNCHANGED <<state, refs, conn, gThinking, gAnswer, doneRun, ended,
                      accSocks, gAttempts, inFlight, discarded, gCalls, thread,
                      voice, rest>>

\* ------------------------------------------------------- the thread effect
\* [threadId, currentThreadId, messages.length] of the dependency list
\* (status and session do not change while the session lasts)
ThreadDeps == <<threadId, currentThreadId, Len(messages)>>

\* the effect on [threadId, currentThreadId, messages.length, status, session]:
\* it runs after a render in which a dependency differs from its last run
ThreadEffect ==
    /\ effDeps # ThreadDeps
    /\ effDeps' = ThreadDeps
    /\ IF threadId = NoThread
       THEN /\ currentThreadId' = NoThread
            /\ messages' = <<>>
            /\ history' = history
       ELSE IF threadId = currentThreadId /\ Len(messages) > 0
       THEN UNCHANGED <<currentThreadId, messages, history>>
       ELSE /\ history < MaxFetch
            /\ currentThreadId' = threadId
            /\ history' = history + 1
            /\ messages' = messages
    /\ UNCHANGED <<isLoading, wsConnected, thinkingContent, streamingContent,
                   toolInvocations, refs, conn, hist, threadId, closureThread,
                   pushes, voice, rest>>

\* a message of the stored thread, as loadHistory maps it
HistoryMessage ==
    [role |-> "assistant", content |-> <<"h">>, thinking |-> Undefined,
     hasTools |-> FALSE, toolInvocations |-> <<>>, kind |-> "history",
     stale |-> FALSE]

\* the fetch of loadHistory settles: "messages" (ok, data.messages is an
\* array), "nolist" (ok, no array), "failed" (not ok, or the fetch threw)
HistoryResponse(outcome) ==
    /\ history > 0
    /\ history' = history - 1
    /\ messages' = IF outcome = "messages" THEN <<HistoryMessage>>
                   ELSE IF outcome = "nolist" THEN messages ELSE <<>>
    /\ UNCHANGED <<isLoading, wsConnected, thinkingContent, streamingContent,
                   toolInvocations, refs, conn, hist, threadId, currentThreadId,
                   closureThread, effDeps, pushes, voice, rest>>

\* the page re-renders ChatInterface with another threadId prop: the route a
\* router.push asked for, or the new-conversation page
RouteChange(t) ==
    /\ t # threadId
    /\ t = NoThread \/ \E i \in 1 .. Len(pushes) : pushes[i] = t
    /\ threadId' = t
    /\ UNCHANGED <<state, refs, conn, hist, currentThreadId, closureThread,
                   effDeps, history, pushes, voice, rest>>

\* -------------------------------------------------------------- voice input
\* InputArea: the voice button (disabled while isLoading) starts a recording
StartRecording ==
    /\ ~isLoading /\ ~recording
    /\ recording' = TRUE
    /\ UNCHANGED <<state, refs, conn, hist, thread, voicePost, rest>>

\* mediaRecorder.onstop (the button, or the silence detector): a blob of more
\* than 500 bytes goes to sendVoiceMessage, which sets isLoading and posts it
StopRecording(big) ==
    /\ recording
    /\ big => ~voicePost.posting
    /\ recording' = FALSE
    /\ isLoading' = (big \/ isLoading)
    /\ voicePost' = IF big THEN [posting |-> TRUE, thread |-> currentThreadId]
                    ELSE voicePost
    /\ UNCHANGED <<messages, wsConnected, thinkingContent, streamingContent,
                   toolInvocations, refs, conn, hist, thread, rest>>

\* { role: 'user', content: data.transcription, mode }
VoiceUserMessage ==
    [role |-> "user", content |-> <<"t">>, thinking |-> Undefined,
     hasTools |-> FALSE, toolInvocations |-> <<>>, kind |-> "user", stale |-> FALSE]

\* { role: 'assistant', content: data.response, mode, tool_calls, isNew: true }
VoiceMessage ==
    [role |-> "assistant", content |-> <<"v">>, thinking |-> Undefined,
     hasTools |-> FALSE, toolInvocations |-> <<>>, kind |-> "voice", stale |-> FALSE]

\* the rest of sendVoiceMessage once the fetch settles: "fail" (not ok, or
\* the fetch threw), "empty" (neither transcription nor response), "reply";
\* window.history.pushState changes the URL only and is left out
VoiceResponse(outcome, tid) ==
    LET new == IF outcome = "fail"
               THEN <<ErrorMessage("Could not process voice message.")>>
               ELSE IF outcome = "empty" THEN <<>>
               ELSE <<VoiceUserMessage, VoiceMessage>>
        adopt == outcome = "reply" /\ voicePost.thread = NoThread /\ tid # NoThread
    IN  /\ voicePost.posting
        /\ Len(messages) + Len(new) <= MaxMsgs
        /\ messages' = messages \o new
        /\ currentThreadId' = IF adopt THEN tid ELSE currentThreadId
        /\ isLoading' = FALSE
        /\ voicePost' = NoPost
        /\ UNCHANGED <<wsConnected, thinkingContent, streamingContent,
                       toolInvocations, refs, conn, hist, threadId, closureThread,
                       effDeps, history, pushes, recording, rest>>

\* ------------------------------------------------ the /api/chat adapter
\* the part type of the chunk a record is converted to
Chunk(type) ==
    IF type = "thinking" THEN "reasoning"
    ELSE IF type = "answer" THEN "text"
    ELSE IF type = "tool_call" THEN "tool-invocation" ELSE "tool-result"

\* the record types the switch enqueues a chunk for
ChunkTypes == {"thinking", "answer", "tool_call", "tool_result"}

\* the controller had been closed or errored by the adapter when it is called
LateCall == gLateCall \/ controller \in {"closed", "errored"}

\* ws.on('open'): the request is sent to the backend
AdapterOnOpen ==
    /\ wsState = "connecting"
    /\ wsState' = "open"
    /\ requests' = requests + 1
    /\ gLateSend' = (gLateSend \/ cancelled)
    /\ UNCHANGED <<controller, chunks, cancelled, gLateCall>>
    /\ UNCHANGED <<chat, variant>>

\* ws.on('message') with a record of the given type; the socket delivers
\* frames until its close event, also after ws.close() was called.
\* enqueue and close throw on a stream that is not readable (the catch block
\* logs it), error does nothing then.
AdapterOnMessage(type) ==
    /\ wsState \in {"open", "closing"}
    /\ \/ /\ type \in ChunkTypes
          /\ controller = "readable" => Len(chunks) < MaxChunks
          /\ chunks' = IF controller = "readable"
                        THEN Append(chunks, Chunk(type)) ELSE chunks
          /\ gLateCall' = LateCall
          /\ UNCHANGED <<wsState, controller>>
       \/ /\ type = "done"
          /\ wsState' = "closing"
          /\ controller' = IF controller = "readable" THEN "closed" ELSE controller
          /\ gLateCall' = LateCall
          /\ UNCHANGED chunks
       \/ /\ type = "error"
          /\ wsState' = "closing"
          /\ controller' = IF controller = "readable" THEN "errored" ELSE controller
          /\ gLateCall' = LateCall
          /\ UNCHANGED chunks
       \/ /\ type \notin EventTypes
          /\ UNCHANGED <<wsState, controller, chunks, gLateCall>>
    /\ UNCHANGED <<requests, cancelled, gLateSend>>
    /\ UNCHANGED <<chat, variant>>

\* ws.on('error'): the handshake or the connection failed; no record is
\* delivered any more and a close event follows
AdapterOnError ==
    /\ wsState \in {"connecting", "open"}
    /\ wsState' = "failed"
    /\ controller' = IF controller = "readable" THEN "errored" ELSE controller
    /\ gLateCall' = LateCall
    /\ UNCHANGED <<chunks, requests, cancelled, gLateSend>>
    /\ UNCHANGED <<chat, variant>>

\* ws.on('close')
AdapterOnClose ==
    /\ wsState \in {"open", "closing", "failed"}
    /\ wsState' = "closed"
    /\ controller' = IF controller = "readable" THEN "closed" ELSE controller
    /\ gLateCall' = LateCall
    /\ UNCHANGED <<chunks, requests, cancelled, gLateSend>>
    /\ UNCHANGED <<chat, variant>>

\* the consumer cancels the response stream (the stream runs the cancel
\* callback of a readable stream only): if (ws.readyState === OPEN) ws.close()
AdapterCancel ==
    /\ controller = "readable"
    /\ cancelled' = TRUE
    /\ controller' = "cancelled"
    /\ wsState' = IF wsState = "open" THEN "closing" ELSE wsState
    /\ UNCHANGED <<chunks, requests, gLateCall, gLateSend>>
    /\ UNCHANGED <<chat, variant>>

\* ------------------------------------- the state-only variant of the client
\* The connection effect's body (the session became authenticated): the
\* socket is created; the handlers close over this render's thinkingContent,
\* streamingContent and currentThreadId.
SoEffectRun ==
    /\ soSocket = "none"
    /\ soSocket' = "connecting"
    /\ soClosure' = [thinking |-> soThinkingContent,
                     streaming |-> soStreamingContent,
                     thread |-> soCurrentThreadId]
    /\ UNCHANGED <<soMessages, soIsLoading, soWsConnected, soThinkingContent,
                   soStreamingContent, soCurrentThreadId, gSoThinking, gSoAnswer>>
    /\ UNCHANGED <<chat, adapter>>

\* websocket.onopen
SoOnOpen ==
    /\ soSocket = "connecting"
    /\ soSocket' = "open"
    /\ soWsConnected' = TRUE
    /\ UNCHANGED <<soMessages, soIsLoading, soThinkingContent, soStreamingContent,
                   soCurrentThreadId, soClosure, gSoThinking, gSoAnswer>>
    /\ UNCHANGED <<chat, adapter>>

\* websocket.onerror (a close event follows)
SoOnSocketError ==
    /\ soSocket \in {"connecting", "open"}
    /\ soSocket' = "closing"
    /\ soWsConnected' = FALSE
    /\ UNCHANGED <<soMessages, soIsLoading, soThinkingContent, soStreamingContent,
                   soCurrentThreadId, soClosure, gSoThinking, gSoAnswer>>
    /\ UNCHANGED <<chat, adapter>>

\* websocket.onclose (this variant does not reconnect)
SoOnClose ==
    /\ soSocket \in {"open", "closing"}
    /\ soSocket' = "closed"
    /\ soWsConnected' = FALSE
    /\ UNCHANGED <<soMessages, soIsLoading, soThinkingContent, soStreamingContent,
                   soCurrentThreadId, soClosure, gSoThinking, gSoAnswer>>
    /\ UNCHANGED <<chat, adapter>>

\* data.type === 'thinking': setThinkingContent(prev => prev + (data.content || ''))
SoOnThinking(c) ==
    /\ soSocket = "open"
    /\ Len(soThinkingContent) + Len(ContentOf(c)) <= MaxLen
    /\ Len(gSoThinking) + Len(gSoAnswer) < MaxFrags
    /\ soThinkingContent' = AppendContent(soThinkingContent, c)
    /\ gSoThinking' = Append(gSoThinking, c)
    /\ UNCHANGED <<soMessages, soIsLoading, soWsConnected, soStreamingContent,
                   soCurrentThreadId, soSocket, soClosure, gSoAnswer>>
    /\ UNCHANGED <<chat, adapter>>

\* data.type === 'answer': setStreamingContent(prev => prev + (data.content || ''))
SoOnAnswer(c) ==
    /\ soSocket = "open"
    /\ Len(soStreamingContent) + Len(ContentOf(c)) <= MaxLen
    /\ Len(gSoThinking) + Len(gSoAnswer) < MaxFrags
    /\ soStreamingContent' = AppendContent(soStreamingContent, c)
    /\ gSoAnswer' = Append(gSoAnswer, c)
    /\ UNCHANGED <<soMessages, soIsLoading, soWsConnected, soThinkingContent,
                   soCurrentThreadId, soSocket, soClosure, gSoThinking>>
    /\ UNCHANGED <<chat, adapter>>

\* { role: 'assistant', content: streamingContent, thinking: thinkingContent ||
\* undefined, ... } built from the variables the handler closed over (the done
\* records of the alphabet carry no tool_calls; isNew is presentation only)
SoFinalMessage(streaming, thinking) ==
    [role |-> "assistant", content |-> streaming,
     thinking |-> IF thinking = <<>> THEN Undefined ELSE thinking,
     hasTools |-> FALSE, toolInvocations |-> <<>>, kind |-> "turn", stale |-> FALSE]

\* data.type === 'done' with data.thread_id = tid
SoOnDone(tid) ==
    LET adopt == soClosure.thread = NoThread /\ tid # NoThread
    IN  /\ soSocket = "open"
        /\ Len(soMessages) < MaxMsgs
        /\ soMessages' = Append(soMessages,
                                SoFinalMessage(soClosure.streaming, soClosure.thinking))
        /\ soCurrentThreadId' = IF adopt THEN tid ELSE soCurrentThreadId
        /\ soThinkingContent' = <<>>
        /\ soStreamingContent' = <<>>
        /\ soIsLoading' = FALSE
        /\ gSoThinking' = <<>>
        /\ gSoAnswer' = <<>>
        /\ UNCHANGED <<soWsConnected, soSocket, soClosure>>
        /\ UNCHANGED <<chat, adapter>>

\* data.type === 'error'
SoOnError(err) ==
    /\ soSocket = "open"
    /\ Len(soMessages) < MaxMsgs
    /\ soMessages' = Append(soMessages, ErrorMessage(err))
    /\ soIsLoading' = FALSE
    /\ soThinkingContent' = <<>>
    /\ soStreamingContent' = <<>>
    /\ gSoThinking' = <<>>
    /\ gSoAnswer' = <<>>
    /\ UNCHANGED <<soWsConnected, soCurrentThreadId, soSocket, soClosure>>
    /\ UNCHANGED <<chat, adapter>>

\* { role: 'user', content: input, mode } of a typed text
SoUserMessage ==
    [role |-> "user", content |-> Typed, thinking |-> Undefined,
     hasTools |-> FALSE, toolInvocations |-> <<>>, kind |-> "user", stale |-> FALSE]

\* sendMessage with a non-blank input (wsRef.current is the socket from its
\* open event to its close event)
SoSendMessage ==
    LET ready == soSocket = "open"
    IN  /\ ~soIsLoading /\ soWsConnected
        /\ Len(soMessages) + (IF ready THEN 1 ELSE 2) <= MaxMsgs
        /\ soMessages' = IF ready
                         THEN Append(soMessages, SoUserMessage)
                         ELSE Append(Append(soMessages, SoUserMessage),
                                     ErrorMessage("Could not connect to the AI backend."))
        /\ soIsLoading' = ready
        /\ soThinkingContent' = <<>>
        /\ soStreamingContent' = <<>>
        /\ gSoThinking' = <<>>
        /\ gSoAnswer' = <<>>
        /\ UNCHANGED <<soWsConnected, soCurrentThreadId, soSocket, soClosure>>
        /\ UNCHANGED <<chat, adapter>>

\* -------------------------------------------------------- specifications
\* Every handler with every input of the alphabet.
Next ==
    \/ EffectRun
    \/ \E k \in EffectIds : Cleanup(k)
    \/ \E s \in SockIds : OnOpen(s)
    \/ \E s \in SockIds : OnSocketError(s)
    \/ \E s \in SockIds : OnClose(s)
    \/ \E k \in EffectIds : TimerFire(k)
    \/ ClockTick
    \/ \E s \in SockIds, c \in Contents \cup {Undefined} : OnThinking(s, c)
    \/ \E s \in SockIds, c \in Contents \cup {Undefined} : OnAnswer(s, c)
    \/ \E s \in SockIds, i \in CallIds \cup {NoId}, n \in ToolNames : OnToolCall(s, i, n)
    \/ \E s \in SockIds, i \in CallIds \cup {NoId}, n \in ToolNames, c \in Results :
          OnToolResult(s, i, n, c)
    \/ \E s \in SockIds : OnDone(s)
    \/ \E s \in SockIds, e \in Errors : OnError(s, e)
    \/ \E text \in Inputs : SetInput(text)
    \/ SendRejected
    \/ SendMessage
    \/ ThreadEffect
    \/ \E o \in {"messages", "nolist", "failed"} : HistoryResponse(o)
    \/ \E r \in ThreadIds \cup {NoThread} : RouteChange(r)
    \/ StartRecording
    \/ \E big \in BOOLEAN : StopRecording(big)
    \/ \E o \in {"fail", "empty", "reply"}, tid \in DoneThreads : VoiceResponse(o, tid)
    \/ AdapterOnOpen
    \/ \E type \in EventTypes \cup {"ping"} : AdapterOnMessage(type)
    \/ AdapterOnError
    \/ AdapterOnClose
    \/ AdapterCancel
    \/ SoEffectRun
    \/ SoOnOpen
    \/ SoOnSocketError
    \/ SoOnClose
    \/ \E c \in Contents \cup {Undefined} : SoOnThinking(c)
    \/ \E c \in Contents \cup {Undefined} : SoOnAnswer(c)
    \/ \E tid \in DoneThreads : SoOnDone(tid)
    \/ \E e \in Errors : SoOnError(e)
    \/ SoSendMessage

Spec == Init /\ [][Next]_vars

\* One run of the connection effect whose socket opens and stays open.
StableSession ==
    \/ EffectRun
    \/ \E s \in SockIds : OnOpen(s)

\* One run of the connection effect (no cleanup) with disconnects and
\* reconnects, at most TurnSockets sockets.
SessionStep ==
    \/ EffectRun
    \/ \E s \in SockIds : OnOpen(s)
    \/ \E s \in SockIds : OnSocketError(s)
    \/ \E s \in SockIds : OnClose(s)
    \/ \E k \in EffectIds : NumSocks < TurnSockets /\ TimerFire(k)

\* done would append a finalMessage
WouldEmit == HasContent(streamingRef, thinkingRef) \/ HasTools(toolInvocationsRef)

\* no finalMessage has been stored yet
FirstTurn == \A i \in 1 .. Len(messages) : messages[i].kind # "turn"

\* The reconnect supervisor under every interleaving of effect runs, cleanups,
\* socket callbacks and timers (no record is received and nothing is sent).
NextConn ==
    \/ EffectRun
    \/ \E k \in EffectIds : Cleanup(k)
    \/ \E s \in SockIds : OnOpen(s)
    \/ \E s \in SockIds : OnSocketError(s)
    \/ \E s \in SockIds : OnClose(s)
    \/ \E k \in EffectIds : TimerFire(k)

SpecConn == Init /\ [][NextConn]_vars

\* The same, where a reconnect timer that stays pending (it was not cleared)
\* runs its callback: the browser fires every timer that is not cancelled.
SpecConnLive ==
    Init /\ [][NextConn]_vars /\ \A k \in EffectIds : WF_vars(TimerFire(k))

\* The records of a short turn: at most TermLen characters of reasoning and
\* of answer and one anonymous tool.
TermEvent ==
    \/ \E s \in SockIds : Len(thinkingRef) < TermLen /\ OnThinking(s, <<"a">>)
    \/ \E s \in SockIds : Len(streamingRef) < TermLen /\ OnAnswer(s, <<"a">>)
    \/ \E s \in SockIds : toolInvocationsRef = <<>> /\ OnToolCall(s, NoId, "scan")
    \/ \E s \in SockIds : OnToolResult(s, NoId, "scan", "r1")
    \/ \E s \in SockIds : OnDone(s)
    \/ \E s \in SockIds, e \in Errors : OnError(s, e)
    \/ TypeAndSend

\* Sends of every kind of input (empty, blank, a text) at every moment of a
\* session that connects, is torn down by the effect's cleanup, disconnects
\* and reconnects; a done ends the request of a send.
NextSend ==
    \/ SessionStep
    \/ \E k \in EffectIds : Cleanup(k)
    \/ \E text \in Inputs : SetInput(text)
    \/ SendRejected
    \/ SendMessage
    \/ \E s \in SockIds : OnDone(s)

SpecSend == Init /\ [][NextSend]_vars

\* The /api/chat adapter serving one POST: the backend socket opens or fails,
\* delivers records of every type in any order, closes; the consumer of the
\* response may cancel at any moment.
NextAdapter ==
    \/ AdapterOnOpen
    \/ \E type \in EventTypes \cup {"ping"} : AdapterOnMessage(type)
    \/ AdapterOnError
    \/ AdapterOnClose
    \/ AdapterCancel

SpecAdapter == Init /\ [][NextAdapter]_vars

\* The state-only variant: its connection effect runs once (the session does
\* not change), the socket opens and may close, turns of thinking and answer
\* records end with done or error.
NextVariant ==
    \/ SoEffectRun
    \/ SoOnOpen
    \/ SoOnSocketError
    \/ SoOnClose
    \/ \E c \in Contents \cup {Undefined} : SoOnThinking(c)
    \/ \E c \in Contents \cup {Undefined} : SoOnAnswer(c)
    \/ \E tid \in DoneThreads : SoOnDone(tid)
    \/ \E e \in Errors : SoOnError(e)
    \/ SoSendMessage

SpecVariant == Init /\ [][NextVariant]_vars

\* Terminal events, repeated ones included, over a connection that stays open.
NextTerm == StableSession \/ TermEvent

SpecTerm == Init /\ [][NextTerm]_vars

\* The same turns over a connection that drops and reconnects.
NextDrop == SessionStep \/ TermEvent

SpecDrop == Init /\ [][NextDrop]_vars

\* The text accumulators: two-letter reasoning and one-letter answer contents,
\* absent ones included, interleaved with the records of one anonymous tool;
\* explored up to the first stored finalMessage and whatever arrives after it.
NextText ==
    \/ StableSession
    \/ \E s \in SockIds, c \in Contents \cup {Undefined} : OnThinking(s, c)
    \/ \E s \in SockIds, c \in {<<"a">>, Undefined} : OnAnswer(s, c)
    \/ \E s \in SockIds : toolInvocationsRef = <<>> /\ OnToolCall(s, NoId, "scan")
    \/ \E s \in SockIds : OnToolResult(s, NoId, "scan", "r1")
    \/ \E s \in SockIds : (FirstTurn \/ ~WouldEmit) /\ OnDone(s)
    \/ \E s \in SockIds, e \in Errors : OnError(s, e)
    \/ TypeAndSend

SpecText == Init /\ [][NextText]_vars

\* The tool registry: every id / name / result of tool records, interleaved
\* with a one-letter answer; turns start with a send and end with an error.
NextTools ==
    \/ StableSession
    \/ ClockTick
    \/ \E s \in SockIds : streamingRef = <<>> /\ OnAnswer(s, <<"a">>)
    \/ \E s \in SockIds, i \in CallIds \cup {NoId}, n \in ToolNames : OnToolCall(s, i, n)
    \/ \E s \in SockIds, i \in CallIds \cup {NoId}, n \in ToolNames, c \in Results :
          OnToolResult(s, i, n, c)
    \/ \E s \in SockIds, e \in Errors : OnError(s, e)
    \/ TypeAndSend

SpecTools == Init /\ [][NextTools]_vars

\* an object frame of the given type
Frame(type, content, name) ==
    Raw("object", type, content, NoId, name, "r1", "boom", NoThread)

\* Frames as the decoder may find them: unparseable text, a JSON null, an
\* unknown and an absent type tag, records with and without their fields, a
\* whitespace-only answer.
RawRecords ==
    { Raw("garbage", "undefined", Undefined, NoId, NoName, "r1", "boom", NoThread),
      Raw("null", "undefined", Undefined, NoId, NoName, "r1", "boom", NoThread),
      Frame("ping", <<"a">>, "scan"),
      Frame("undefined", <<"a">>, "scan"),
      Frame("thinking", <<"a">>, NoName),
      Frame("thinking", Undefined, NoName),
      Frame("answer", Blank, NoName),
      Frame("tool_call", Undefined, NoName),
      Frame("tool_result", Undefined, NoName),
      Frame("done", Undefined, NoName),
      Frame("error", Undefined, NoName) }

\* at most TermLen reasoning and answer records and one tool per turn;
\* explored up to the first stored finalMessage
DecodeBound(raw) ==
    /\ raw.type = "thinking" => Len(gThinking) < TermLen
    /\ raw.type = "answer" => Len(gAnswer) < TermLen
    /\ raw.type = "tool_call" => toolInvocationsRef = <<>>
    /\ raw.type = "done" => (FirstTurn \/ ~WouldEmit)

\* Every kind of frame over a connection that stays open.
NextDecode ==
    \/ StableSession
    \/ \E s \in SockIds, raw \in RawRecords : DecodeBound(raw) /\ OnMessage(s, raw)
    \/ TypeAndSend

SpecDecode == Init /\ [][NextDecode]_vars

\* Short turns over a connection that stays open, with voice input.
NextVoice ==
    \/ StableSession
    \/ TermEvent
    \/ StartRecording
    \/ \E big \in BOOLEAN : StopRecording(big)
    \/ \E o \in {"fail", "empty", "reply"}, tid \in DoneThreads : VoiceResponse(o, tid)

SpecVoice == Init /\ [][NextVoice]_vars

\* A conversation started on the new-conversation page: one-letter answers,
\* done records with and without a thread id, the thread effect, the history
\* load and the route following a router.push.
NextThread ==
    \/ StableSession
    \/ ThreadEffect
    \/ \E o \in {"messages", "nolist", "failed"} : HistoryResponse(o)
    \/ \E r \in ThreadIds \cup {NoThread} : RouteChange(r)
    \/ \E s \in SockIds : Len(streamingRef) < TermLen /\ OnAnswer(s, <<"a">>)
    \/ \E s \in SockIds : OnDone(s)
    \/ TypeAndSend

SpecThread == InitNewChat /\ [][NextThread]_vars

\* ------------------------------------------------------------------ claims
\* what a fragment contributes to the accumulated text
Frag(c) == IF c = Undefined THEN <<>> ELSE c

RECURSIVE ConcatFrags(_)
ConcatFrags(fs) == IF fs = <<>> THEN <<>> ELSE Frag(Head(fs)) \o ConcatFrags(Tail(fs))

Anonymous(tool) == tool.id \notin CallIds

\* C2: with two pending invocations of one tool name created without a call
\* id, a tool_result of that name without a call id resolves the first
\* invocation only; the second stays pending (for the second result).
C2_Original ==
    [][\A s \in SockIds, n \in ToolNames, c \in Results :
         (/\ Len(toolInvocationsRef) = 2
          /\ \A j \in 1 .. 2 : /\ toolInvocationsRef[j].name = n
                               /\ toolInvocationsRef[j].status = "calling"
                               /\ Anonymous(toolInvocationsRef[j])
          /\ OnToolResult(s, NoId, n, c))
         => /\ toolInvocationsRef'[1].status = "completed"
            /\ toolInvocationsRef'[1].result = c
            /\ toolInvocationsRef'[2].status = "calling"]_vars

\* C3: a tool_result with a call id that an invocation of the turn carries
\* resolves the invocations with that id and leaves every other invocation,
\* those of the same tool name included, unchanged.
C3_Original ==
    [][\A s \in SockIds, i \in CallIds, n \in ToolNames, c \in Results :
         (/\ \E j \in 1 .. Len(toolInvocationsRef) : toolInvocationsRef[j].id = i
          /\ OnToolResult(s, i, n, c))
         => \A j \in 1 .. Len(toolInvocationsRef) :
               IF toolInvocationsRef[j].id = i
               THEN /\ toolInvocationsRef'[j].status = "completed"
                    /\ toolInvocationsRef'[j].result = c
               ELSE toolInvocationsRef'[j] = toolInvocationsRef[j]]_vars

\* C4: a done record that directly follows a done record appends nothing to
\* the message list.
C4_SecondDoneAddsNothing ==
    [][(doneRun >= 1 /\ \E s \in SockIds : OnDone(s)) => messages' = messages]_vars

\* a turn was finalized and done was delivered once more
C4_Witness ==
    /\ doneRun = 2
    /\ Len(messages) = 2
    /\ messages[1].kind = "user"
    /\ messages[2].kind = "turn"
    /\ messages[2].content = <<"a">>

\* C5: a terminal record (done or error) that arrives after the turn was ended
\* by a terminal record, and before the next send, changes neither the message
\* list nor the accumulators nor the loading flag.
C5_Original ==
    [][(/\ ended
        /\ \/ \E s \in SockIds : OnDone(s)
           \/ \E s \in SockIds, e \in Errors : OnError(s, e))
       => UNCHANGED <<messages, isLoading, thinkingContent, streamingContent,
                      toolInvocations, thinkingRef, streamingRef,
                      toolInvocationsRef>>]_vars

\* C6: no finalized turn holds a fragment received on a socket that closed
\* while the turn was being accumulated.
C6_Original == \A i \in 1 .. Len(messages) : ~messages[i].stale

\* C7: a close of the socket while a request is in flight leaves the loading
\* state, so that a send is accepted once the channel is open again.
C7_Original ==
    [][\A s \in SockIds : (isLoading /\ OnClose(s)) => ~isLoading']_vars

\* C8: once the cleanup of an effect run has run, that run has no reconnect
\* timer pending and none of its sockets is connecting or open.
C8_Original ==
    \A k \in EffectIds :
        sup[k].torn =>
            /\ sup[k].timer = "none"
            /\ \A s \in SockIds :
                  sock[s].sup = k => sock[s].st \notin {"connecting", "open"}

\* C9: a scheduled reconnect has the delay min(1000 * 2^attempt, 16000), where
\* attempt counts the reconnect attempts since the last successful open (0
\* right after an open, so the first reconnect is scheduled after 1000 ms).
C9_BackoffDelay ==
    \A k \in EffectIds :
        sup[k].timer = "pending" =>
            /\ sup[k].delay = Min(1000 * Pow2(gAttempts[k]), 16000)
            /\ gAttempts[k] = 0 => sup[k].delay = 1000

\* a reconnect scheduled after four failed attempts, and one scheduled with
\* the base delay after a reconnect had succeeded
C9_Witness ==
    \E k \in EffectIds :
        /\ sup[k].timer = "pending"
        /\ \/ sup[k].delay = 16000
           \/ /\ sup[k].delay = 1000
              /\ \E s \in SockIds : s # sup[k].ws /\ sock[s].sup = k
                                    /\ sock[s].st = "closed"

\* C10: the attempt counter never exceeds maxReconnectAttempts, and after that
\* many reconnect attempts without a successful open no reconnect is scheduled.
C10_BoundedRetry ==
    \A k \in EffectIds :
        /\ sup[k].attempts <= 5
        /\ gAttempts[k] >= 5 => sup[k].timer = "none"

\* the socket of the fifth reconnect attempt has closed
C10_Witness ==
    \E k \in EffectIds :
        /\ gAttempts[k] = 5
        /\ sup[k].timer = "none"
        /\ \A s \in SockIds : sock[s].sup = k => sock[s].st = "closed"

\* what the render shows above the input: {!wsConnected && "Reconnecting to server..."}
Indicator == IF ~wsConnected THEN "Reconnecting to server..." ELSE "none"

\* run k has used up its reconnect attempts: the socket of the last attempt is
\* closed and no timer is pending
Exhausted(k) ==
    /\ sup[k].ran
    /\ sup[k].attempts = maxReconnectAttempts
    /\ sup[k].timer = "none"
    /\ \A s \in SockIds : sock[s].sup = k => sock[s].st = "closed"

\* C11: once the retries of a run are exhausted the user-visible connection
\* state is not the transient one shown while a reconnect is scheduled: the
\* "Reconnecting to server..." indicator is not what is displayed.
C11_Original ==
    \A k \in EffectIds : Exhausted(k) => Indicator # "Reconnecting to server..."

\* a pending invocation that a tool_result with this id / name is meant for
PendingFor(tool, callId, name) ==
    tool.status = "calling" /\ (tool.id = callId \/ tool.name = name)

\* C12: a tool_result for which the turn holds no pending invocation with that
\* id or name leaves the invocation list as it is (same length, same ids,
\* names, statuses, results, order), in the ref and in the rendered state.
C12_Original ==
    [][\A s \in SockIds, i \in CallIds \cup {NoId}, n \in ToolNames, c \in Results :
         (/\ \A j \in 1 .. Len(toolInvocationsRef) :
                ~PendingFor(toolInvocationsRef[j], i, n)
          /\ OnToolResult(s, i, n, c))
         => /\ toolInvocationsRef' = toolInvocationsRef
            /\ toolInvocations' = toolInvocations]_vars

\* C13: a done record that finds no reasoning text, no answer text and no tool
\* invocation accumulated leaves the message list unchanged (no Turn).
C13_EmptyTurnNoMessage ==
    [][\A s \in SockIds :
         (/\ thinkingRef = <<>> /\ streamingRef = <<>> /\ toolInvocationsRef = <<>>
          /\ OnDone(s))
         => messages' = messages]_vars

\* a request was sent and done arrived before any other record: the list
\* holds the user message alone
C13_Witness ==
    /\ doneRun = 1
    /\ ended
    /\ ~isLoading
    /\ messages = <<UserMessage(Typed)>>

\* C14: an error record discards the reasoning, answer and tool state
\* accumulated for the turn (refs and rendered state) and appends exactly one
\* assistant message that carries the record's error text and nothing of the
\* accumulated content; no request is in flight afterwards (nothing is re-sent).
C14_ErrorDiscards ==
    [][\A s \in SockIds, e \in Errors :
         OnError(s, e) =>
            /\ Len(messages') = Len(messages) + 1
            /\ SubSeq(messages', 1, Len(messages)) = messages
            /\ messages'[Len(messages')].role = "assistant"
            /\ messages'[Len(messages')].content = <<"Error: ", e>>
            /\ messages'[Len(messages')].thinking = Undefined
            /\ messages'[Len(messages')].toolInvocations = <<>>
            /\ thinkingRef' = <<>> /\ streamingRef' = <<>> /\ toolInvocationsRef' = <<>>
            /\ thinkingContent' = <<>> /\ streamingContent' = <<>>
            /\ toolInvocations' = <<>>
            /\ ~inFlight' /\ ~isLoading']_vars

\* an error record ended a request whose turn had accumulated content
C14_Witness ==
    /\ discarded
    /\ ended
    /\ Len(messages) = 2
    /\ messages[1].kind = "user"
    /\ messages[2].content = <<"Error: ", "boom">>
    /\ thinkingRef = <<>> /\ streamingRef = <<>> /\ toolInvocationsRef = <<>>

\* a frame that does not decode to an event of the closed set
Malformed(raw) ==
    \/ raw.json # "object"
    \/ raw.type \notin {"thinking", "answer", "tool_call", "tool_result", "done",
                        "error"}

\* C15: a malformed frame (unparseable, or with a type tag outside the closed
\* set) changes neither the accumulators, nor the message list, nor the
\* loading flag, nor the connection state, nor the thread identity; the state
\* the following events are processed in is the state before the frame.
C15_MalformedDropped ==
    [][(\E s \in SockIds, raw \in RawRecords : Malformed(raw) /\ OnMessage(s, raw))
         => UNCHANGED <<state, refs, conn, thread, voice>>]_vars

\* a frame was dropped at the start of a turn and the thinking record that
\* came after it was folded in; the stream went on to its done
C15_Witness ==
    /\ gDropAt = 0
    /\ doneRun = 1
    /\ Len(messages) = 2
    /\ messages[1].kind = "user"
    /\ messages[2].kind = "turn"
    /\ messages[2].thinking = <<"a">>

\* a record of the closed set that lacks a field its variant requires
LacksField(raw) ==
    /\ raw.json = "object"
    /\ \/ raw.type \in {"tool_call", "tool_result"} /\ raw.tool_name = NoName
       \/ raw.type \in {"thinking", "answer"} /\ raw.content = Undefined

\* C16: a record whose type is in the closed set but which lacks a required
\* field is rejected and changes no turn state (accumulators, message list,
\* loading flag); a tool_call without a name creates no invocation.
C16_Original ==
    [][(\E s \in SockIds, raw \in RawRecords : LacksField(raw) /\ OnMessage(s, raw))
         => UNCHANGED <<state, refs>>]_vars

\* C17: a send is transmitted only when no earlier request is in flight:
\* between two transmitted requests there is a done or an error record.
C17_Original ==
    [][((SendMessage \/ TypeAndSend) /\ SocketReady) => ~inFlight]_vars

\* C18: once the client holds a thread id (from the route or adopted from an
\* earlier done), a done record neither changes it nor triggers a navigation.
C18_Original ==
    [][\A s \in SockIds :
         (currentThreadId # NoThread /\ OnDone(s))
         => /\ currentThreadId' = currentThreadId
            /\ pushes' = pushes]_vars

\* C19: a done record that finds the turn non-empty (some reasoning text, some
\* answer text or some invocation accumulated) appends exactly one assistant
\* Turn, which carries exactly the accumulated reasoning text, answer text and
\* invocation list.
C19_Original ==
    [][\A s \in SockIds :
         (/\ thinkingRef # <<>> \/ streamingRef # <<>> \/ toolInvocationsRef # <<>>
          /\ OnDone(s))
         => /\ Len(messages') = Len(messages) + 1
            /\ SubSeq(messages', 1, Len(messages)) = messages
            /\ messages'[Len(messages')].role = "assistant"
            /\ messages'[Len(messages')].content = streamingRef
            /\ Frag(messages'[Len(messages')].thinking) = thinkingRef
            /\ messages'[Len(messages')].toolInvocations = toolInvocationsRef]_vars

\* C20: a tool_result sets every pending invocation with its name or id to
\* completed with the record's content as result, in the ref and in the
\* rendered state, whatever was received since the tool_call; the Turn that a
\* done finalizes holds the invocations exactly as accumulated (a completed
\* one with its result).
C20_ResultCompletes ==
    [][/\ \A s \in SockIds, i \in CallIds \cup {NoId}, n \in ToolNames, c \in Results :
            OnToolResult(s, i, n, c) =>
               /\ Len(toolInvocationsRef') = Len(toolInvocationsRef)
               /\ toolInvocations' = toolInvocationsRef'
               /\ \A j \in 1 .. Len(toolInvocationsRef) :
                     PendingFor(toolInvocationsRef[j], i, n) =>
                        /\ toolInvocationsRef'[j].status = "completed"
                        /\ toolInvocationsRef'[j].result = c
                        /\ toolInvocationsRef'[j].name = toolInvocationsRef[j].name
                        /\ toolInvocationsRef'[j].id = toolInvocationsRef[j].id
       /\ \A s \in SockIds :
            (toolInvocationsRef # <<>> /\ OnDone(s)) =>
               /\ Len(messages') = Len(messages) + 1
               /\ messages'[Len(messages')].toolInvocations = toolInvocationsRef]_vars

\* tool_call scan, an answer, tool_result scan with r1 and done in one turn:
\* the stored Turn holds one invocation, completed, with result r1
C20_Witness ==
    /\ Len(messages) = 2
    /\ messages[1].kind = "user"
    /\ messages[2].kind = "turn"
    /\ messages[2].content = <<"a">>
    /\ Len(messages[2].toolInvocations) = 1
    /\ messages[2].toolInvocations[1].name = "scan"
    /\ messages[2].toolInvocations[1].status = "completed"
    /\ messages[2].toolInvocations[1].result = "r1"

\* the names of a list of invocations, in list order
NamesOf(tools) == [i \in 1 .. Len(tools) |-> tools[i].name]

\* tools is prev with exactly one invocation in the calling state added at
\* its end
AppendsCalling(prev, tools) ==
    /\ Len(tools) = Len(prev) + 1
    /\ SubSeq(tools, 1, Len(prev)) = prev
    /\ tools[Len(tools)].status = "calling"

\* C21: every tool_call record appends exactly one invocation in the calling
\* state at the end of the invocation list, in the ref and in the rendered
\* state, and changes no entry already there; afterwards the list holds the
\* tool calls received since the turn started, in arrival order, and as many
\* entries as tool_call records arrived.
C21_ToolCallAppends ==
    [][(\E s \in SockIds, i \in CallIds \cup {NoId}, n \in ToolNames :
            OnToolCall(s, i, n))
         => /\ AppendsCalling(toolInvocationsRef, toolInvocationsRef')
            /\ AppendsCalling(toolInvocations, toolInvocations')
            /\ NamesOf(toolInvocationsRef') = gCalls'
            /\ NamesOf(toolInvocations') = gCalls']_vars

\* two tool calls arrived in a turn, the first one completed before the
\* second was registered at the end of the list
C21_Witness ==
    /\ gCalls = <<"scan", "image_search">>
    /\ Len(toolInvocationsRef) = 2
    /\ toolInvocationsRef[1].status = "completed"
    /\ toolInvocationsRef[2].status = "calling"
    /\ isLoading

\* the three accumulators are empty, in the refs and in the rendered state
AccumulatorsEmpty ==
    /\ thinkingRef = <<>> /\ streamingRef = <<>> /\ toolInvocationsRef = <<>>
    /\ thinkingContent = <<>> /\ streamingContent = <<>> /\ toolInvocations = <<>>

\* C22: after every terminal event (done or error) the reasoning text, the
\* answer text and the invocation list are empty, in the refs and in the
\* rendered state, so the next turn starts from empty accumulators.
C22_TerminalClears ==
    [][((\E s \in SockIds : OnDone(s)) \/ (\E s \in SockIds, e \in Errors : OnError(s, e)))
         => AccumulatorsEmpty']_vars

\* a done stored a turn with text, reasoning and an invocation, and left
\* every accumulator empty
C22_Witness ==
    /\ doneRun = 1
    /\ Len(messages) = 2
    /\ messages[2].kind = "turn"
    /\ messages[2].content # <<>> /\ messages[2].thinking # Undefined
    /\ messages[2].hasTools
    /\ AccumulatorsEmpty

\* the step is an inbound record of the stream, of any type
InboundEvent ==
    \/ \E s \in SockIds, c \in Contents \cup {Undefined} : OnThinking(s, c)
    \/ \E s \in SockIds, c \in Contents \cup {Undefined} : OnAnswer(s, c)
    \/ \E s \in SockIds, i \in CallIds \cup {NoId}, n \in ToolNames : OnToolCall(s, i, n)
    \/ \E s \in SockIds, i \in CallIds \cup {NoId}, n \in ToolNames, c \in Results :
          OnToolResult(s, i, n, c)
    \/ \E s \in SockIds : OnDone(s)
    \/ \E s \in SockIds, e \in Errors : OnError(s, e)

\* C23: a finalized turn is immutable with respect to the stream: once it is
\* in the message list no inbound record (a late tool_result naming one of
\* its tools, the records of a later turn) changes its reasoning text, its
\* answer text or the name, status or result of any of its invocations.
C23_FinalizedImmutable ==
    [][InboundEvent
         => \A i \in 1 .. Len(messages) :
               messages[i].kind = "turn"
                  => /\ i <= Len(messages')
                     /\ messages'[i].content = messages[i].content
                     /\ messages'[i].thinking = messages[i].thinking
                     /\ messages'[i].toolInvocations = messages[i].toolInvocations]_vars

\* a turn was stored while its tool was still being called, and the tool's
\* result arrived after the done: the stored invocation is still calling
C23_Witness ==
    /\ Len(messages) = 2
    /\ messages[2].kind = "turn"
    /\ messages[2].hasTools
    /\ messages[2].toolInvocations[1].status = "calling"
    /\ doneRun = 0
    /\ ~isLoading
    /\ AccumulatorsEmpty

\* the socket run k created last
LatestOf(k) ==
    CHOOSE s \in SockIds :
        /\ sock[s].sup = k
        /\ \A x \in SockIds : sock[x].sup = k => x <= s

\* the connection of run k is closed, the run was not torn down and its
\* retry bound is not reached
ClosedLive(k) ==
    /\ sup[k].ran /\ ~sup[k].torn
    /\ sock[LatestOf(k)].st = "closed"
    /\ sup[k].attempts < maxReconnectAttempts

LiveSockets == {s \in SockIds : sock[s].st \in {"connecting", "open"}}

\* the supervisors that own a live socket or a pending reconnect timer
ActiveSupervisors ==
    {k \in EffectIds : \/ sup[k].timer = "pending"
                        \/ \E s \in LiveSockets : sock[s].sup = k}

\* C25: at any time at most one socket of the session is connecting or open
\* and at most one reconnect supervisor is active, also across re-runs of
\* the connection effect.
C25_Original ==
    /\ Cardinality(LiveSockets) <= 1
    /\ Cardinality(ActiveSupervisors) <= 1

\* C26: within one turn the ids of the tracked invocations are pairwise
\* distinct, also when the id of an invocation was generated from the clock
\* because its tool_call carried no call id.
C26_Original ==
    \A i, j \in 1 .. Len(toolInvocationsRef) :
        (i # j /\ Anonymous(toolInvocationsRef[i]))
            => toolInvocationsRef[i].id # toolInvocationsRef[j].id

\* C27: a send attempted while the connection is not open transmits no
\* request and does not leave the client in the in-flight state: with the
\* connected flag false it changes nothing (no user message, the input is
\* kept); with the flag true and the socket absent or not OPEN, a send that
\* passes the guard appends the user message and an error message of the
\* assistant, and the loading flag is false afterwards.
C27_SendWhileNotOpen ==
    [][((SendMessage \/ SendRejected) /\ ~SocketReady)
         => /\ inFlight' = inFlight
            /\ ~wsConnected => UNCHANGED vars
            /\ (wsConnected /\ TrimNonEmpty(input) /\ ~isLoading)
                  => /\ ~isLoading'
                     /\ messages' = messages \o
                           <<UserMessage(input),
                             ErrorMessage("Could not connect to the AI backend.")>>]_vars

\* the cleanup closed the socket and its close event has not come yet (the
\* flag was still true): the send was answered with the error message
C27_Witness ==
    /\ messages = <<UserMessage(Typed),
                    ErrorMessage("Could not connect to the AI backend.")>>
    /\ ~isLoading
    /\ ~inFlight
    /\ input = <<>>
    /\ wsConnected
    /\ wsRef # 0 /\ sock[wsRef].st = "closing"

\* C28: the adapter terminates the response stream exactly once: after it
\* has closed or errored the controller (on done, error, socket error or
\* socket close) it calls neither close, nor error, nor enqueue on it again.
C28_Original == ~gLateCall

\* C29: once the consumer has cancelled the response stream the backend
\* socket is closed (closing or closed) and no request is sent to the
\* backend afterwards, also when the cancel comes while the socket is still
\* connecting.
C29_Original ==
    cancelled => (wsState \in {"closing", "failed", "closed"} /\ ~gLateSend)

\* C30: in the variant that keeps the accumulators in React state only, the
\* assistant message finalized on done has as content the concatenation of
\* the answer fragments received in the turn and as thinking the
\* concatenation of its thinking fragments (absent when that is empty): what
\* the ref-based variant stores for the same records.
C30_Original ==
    [][(\E tid \in DoneThreads : SoOnDone(tid))
         => LET m == soMessages'[Len(soMessages')]
                mRef == FinalMessage(ConcatFrags(gSoAnswer), ConcatFrags(gSoThinking),
                                     <<>>, FALSE)
            IN  m.content = mRef.content /\ m.thinking = mRef.thinking]_vars

====
